---- MODULE Spec2Model ----
(***************************************************************************)
(* DocMind: the document-to-retrievable-knowledge pipeline.                *)
(*                                                                         *)
(* State: the document registry (PostgreSQL table `documents`), the        *)
(* vector index (the ChromaDB collection), and the last call made on       *)
(* PDFProcessor / RAGPipeline together with what it returned.              *)
(* One action per public handler; every handler is modelled whole.         *)
(*                                                                         *)
(* Distances are kept in tenths (1.5 is 15), similarity scores in          *)
(* hundredths (1 - d/2 is 100 - 5*d10).                                    *)
(***************************************************************************)
EXTENDS Integers, Sequences, FiniteSets, TLC

VARIABLES registry, nextId, index, call, result, procs

vars == <<registry, nextId, index, call, result, procs>>

-----------------------------------------------------------------------------
(* Bounds of the model.                                                    *)

MaxDocs == 1

MaxSegments == 2

MaxPages == 2

MaxFiles == 1
(* Question lines in one LLM reply.                                        *)
MaxQuestionLines == 5

(* Program constants.                                                      *)

max_chunks == 5

FallbackTop == 3

DistanceThreshold10 == 15

MinNativeChars == 50

MinOcrChars == 10

TempIdModulus == 10000
(* response["content"] parsed and cut: [:4]                                *)
MaxSuggestedQuestions == 4

-----------------------------------------------------------------------------
(* Values.                                                                 *)

None == "None"

(* None where an integer id is expected, and where a registry row is.      *)
NoneId == -1

NoRow == [none |-> TRUE]

FileName(i) == "f" \o ToString(i) \o ".pdf"

FileNames == {FileName(i) : i \in 1..MaxFiles}

Contents == {"v1", "v2"}

PdfTypes == {"digital", "scanned", "unknown"}

GrobidOutcomes == {"academic", "plain", "failed"}

Defects == {"ok", "missing", "not_pdf", "too_large", "unopenable", "zero_pages"}

(* Distances the index can report, in tenths, around the 1.5 cut-off.      *)
Distances == {2, 9, 15, 16, 20}

Min(a, b) == IF a <= b THEN a ELSE b

Range(s) == {s[i] : i \in 1..Len(s)}

SeqsUpTo(S, n) == UNION {[1..k -> S] : k \in 0..n}

(* The ids hash(file_name) % 10000 can take, kept to two of them: 0, and   *)
(* an id the registry hands out as well.                                   *)
TempIds == {i \in {0, MaxDocs} : i < TempIdModulus}

-----------------------------------------------------------------------------
(* VectorStore                                                             *)

(* The methods class VectorStore defines.                                  *)
VectorStoreMethods ==
    {"__init__", "_connect", "store_chunks", "query_similar",
     "delete_collection", "health_check"}

(* f"{chunk['document_id']}_{chunk['chunk_index']}"                        *)
ChunkId(document_id, chunk_index) ==
    ToString(document_id) \o "_" \o ToString(chunk_index)

(* str(document_id)                                                        *)
Str(document_id) == ToString(document_id)

(* The chunks store_chunks keeps: content present and non-blank, and an    *)
(* embedding present.                                                      *)
StorableChunks(chunks) ==
    SelectSeq(chunks, LAMBDA c : (~c.blank) /\ c.has_embedding)

EntryOf(c) ==
    [document |-> c.content,
     metadata |-> [document_id |-> Str(c.document_id),
                   chunk_index |-> c.chunk_index,
                   source |-> "pdf"]]

(* collection.add(documents, ids, embeddings, metadatas) of the backing    *)
(* index.  An id that is already present is not overwritten: depending on  *)
(* the backing version the call raises (nothing is added) or skips the     *)
(* ids that exist.  backend is "ok", or "raises" when the call fails.      *)
CollectionAdd(idx, chunks, backend, dupPolicy) ==
    LET ids == {ChunkId(chunks[i].document_id, chunks[i].chunk_index) : i \in 1..Len(chunks)}
        dup == ids \cap DOMAIN idx /= {}
        fresh == {i \in 1..Len(chunks) :
                     ChunkId(chunks[i].document_id, chunks[i].chunk_index) \notin DOMAIN idx}
        FirstWith(k) == CHOOSE i \in fresh :
                           ChunkId(chunks[i].document_id, chunks[i].chunk_index) = k
        newIds == {ChunkId(chunks[i].document_id, chunks[i].chunk_index) : i \in fresh}
    IN  IF backend = "raises" \/ (dup /\ dupPolicy = "raise")
        THEN [raised |-> TRUE, index |-> idx]
        ELSE [raised |-> FALSE,
              index |-> [k \in DOMAIN idx \cup newIds |->
                            IF k \in DOMAIN idx THEN idx[k] ELSE EntryOf(chunks[FirstWith(k)])]]

(* store_chunks without its guard on a missing collection: the call on    *)
(* None raises.                                                            *)
StoreChunksUnguarded(idx, collection, chunks, backend, dupPolicy) ==
    IF collection = None
    THEN [raised |-> TRUE, ok |-> FALSE, index |-> idx]
    ELSE LET added == CollectionAdd(idx, StorableChunks(chunks), backend, dupPolicy) IN
         IF added.raised
         THEN [raised |-> FALSE, ok |-> FALSE, index |-> idx]
         ELSE [raised |-> FALSE, ok |-> TRUE, index |-> added.index]

(* store_chunks: returns a bool, never raises.                             *)
StoreChunks(idx, collection, chunks, backend, dupPolicy) ==
    IF collection = None \/ Len(chunks) = 0
    THEN [raised |-> FALSE, ok |-> FALSE, index |-> idx]
    ELSE LET valid == StorableChunks(chunks) IN
         IF Len(valid) = 0
         THEN [raised |-> FALSE, ok |-> FALSE, index |-> idx]
         ELSE LET added == CollectionAdd(idx, valid, backend, dupPolicy) IN
              IF added.raised
              THEN [raised |-> FALSE, ok |-> FALSE, index |-> idx]
              ELSE [raised |-> FALSE, ok |-> TRUE, index |-> added.index]

-----------------------------------------------------------------------------
(* EmbeddingService                                                        *)

(* encode_chunks: keeps the chunks with non-blank content and embeds them. *)
(* A failing encode_text is caught inside and the chunks come back as they *)
(* were, without embeddings; the method itself does not raise.             *)
EncodeChunks(chunks, embed) ==
    IF Len(chunks) = 0
    THEN [raised |-> FALSE, chunks |-> <<>>]
    ELSE LET valid_chunks == SelectSeq(chunks, LAMBDA c : ~c.blank) IN
         IF Len(valid_chunks) = 0
         THEN [raised |-> FALSE, chunks |-> chunks]
         ELSE IF embed = "fails"
              THEN [raised |-> FALSE, chunks |-> chunks]
              ELSE [raised |-> FALSE,
                    chunks |-> [i \in 1..Len(valid_chunks) |->
                                   [valid_chunks[i] EXCEPT !.has_embedding = TRUE]]]

-----------------------------------------------------------------------------
(* LangChainChunker                                                        *)

(* chunk_text: segs is what the splitter emits for the cleaned text, TRUE  *)
(* for a segment with content and FALSE for a blank one; an empty cleaned  *)
(* text gives no segment.  A chunk keeps the position i of its segment in  *)
(* the splitter's output as chunk_index.                                   *)
ChunkText(content, segs, chunk_size, overlap) ==
    LET kept == SelectSeq([i \in 1..Len(segs) |-> i], LAMBDA i : segs[i])
    IN  [j \in 1..Len(kept) |->
            [content |-> <<content, kept[j] - 1>>,
             blank |-> FALSE,
             chunk_index |-> kept[j] - 1,
             chunk_type |-> "standard",
             chunk_size |-> chunk_size,
             chunk_overlap |-> overlap,
             document_id |-> NoneId,
             has_embedding |-> FALSE]]

default_chunk_size == 1000

default_overlap == 100

research_paper_chunk_size == 1500

research_paper_overlap == 150

ChunkResearchPaper(content, segs) ==
    ChunkText(content, segs, research_paper_chunk_size, research_paper_overlap)

-----------------------------------------------------------------------------
(* DatabaseConn: the table `documents`                                     *)

(* processing_status VARCHAR(20) DEFAULT 'completed'                       *)
DefaultProcessingStatus == "completed"

IdsOfFile(reg, file_name) == {d \in DOMAIN reg : reg[d].file_name = file_name}

(* insert_document_metadata: the id of the row with this file name when    *)
(* there is one, else the id of a new row; None when the database fails.   *)
InsertDocumentMetadata(reg, nid, file_name, pdf_type, db) ==
    IF db = "fails"
    THEN [id |-> NoneId, registry |-> reg, nextId |-> nid]
    ELSE IF IdsOfFile(reg, file_name) /= {}
         THEN [id |-> CHOOSE d \in IdsOfFile(reg, file_name) : TRUE,
               registry |-> reg, nextId |-> nid]
         ELSE [id |-> nid,
               registry |-> [d \in DOMAIN reg \cup {nid} |->
                                IF d = nid
                                THEN [file_name |-> file_name,
                                      processing_status |-> DefaultProcessingStatus,
                                      chunk_count |-> 0,
                                      has_embeddings |-> FALSE]
                                ELSE reg[d]],
               nextId |-> nid + 1]

(* update_processing_status: UPDATE ... WHERE id = document_id.            *)
UpdateProcessingStatus(reg, document_id, chunk_count, has_embeddings, processing_status, db) ==
    IF db = "fails"
    THEN [ok |-> FALSE, registry |-> reg]
    ELSE [ok |-> TRUE,
          registry |-> [d \in DOMAIN reg |->
                           IF d = document_id
                           THEN [reg[d] EXCEPT !.processing_status = processing_status,
                                               !.chunk_count = chunk_count,
                                               !.has_embeddings = has_embeddings]
                           ELSE reg[d]]]

(* get_document_metadata: the row, or None.                                *)
GetDocumentMetadata(reg, document_id, db) ==
    IF db = "fails" \/ document_id \notin DOMAIN reg THEN NoRow ELSE reg[document_id]

(* DatabaseConn.delete_document: False when the row is not there or the    *)
(* database fails, else the row is deleted.                                *)
DatabaseDeleteDocument(reg, document_id, db) ==
    IF db = "fails" \/ document_id \notin DOMAIN reg
    THEN [ok |-> FALSE, registry |-> reg]
    ELSE [ok |-> TRUE, registry |-> [d \in DOMAIN reg \ {document_id} |-> reg[d]]]

(* list_all_documents(processing_status=...)                               *)
ListAllDocuments(reg, processing_status) ==
    {d \in DOMAIN reg : reg[d].processing_status = processing_status}

-----------------------------------------------------------------------------
(* PDFAnalyzer                                                             *)
(*                                                                         *)
(* A document: whether it can be read, its page count, and per page index  *)
(* (from 0) the length of the trimmed text and whether it has an image.    *)
(* Ratios and the confidence are kept in hundredths.                       *)

sample_pages == 5

text_threshold == 50

(* self.text_density_threshold * 1000, in characters per sampled page.     *)
text_density_threshold_chars == 100

ConfidenceCap100 == 9500

(* round(a / b, 0) for b > 0.                                              *)
RoundDiv(a, b) == (2 * a + b) \div (2 * b)

(* range(pages_to_sample), plus the middle and the last page when the      *)
(* document has more than sample_pages pages; list(set(...)).              *)
SampleIndices(total_pages) ==
    LET pages_to_sample == Min(sample_pages, total_pages)
        first == 0..(pages_to_sample - 1)
    IN  IF total_pages > sample_pages
        THEN first \cup {total_pages \div 2, total_pages - 1}
        ELSE first

RECURSIVE SumChars(_, _)
SumChars(pages, S) ==
    IF S = {} THEN 0
    ELSE LET i == CHOOSE i \in S : TRUE IN pages[i].chars + SumChars(pages, S \ {i})

(* detect_pdf_type with a ratio of exactly 0.6 counted as digital.         *)
DetectPdfTypeInclusive(doc) ==
    IF ~doc.readable
    THEN [raised |-> FALSE, pdf_type |-> "unknown", confidence100 |-> 0]
    ELSE LET sample_indices == SampleIndices(doc.total_pages)
             with_text == {i \in sample_indices : doc.pages[i].chars > text_threshold}
             pages_sampled == Cardinality(sample_indices)
             pages_with_text == Cardinality(with_text)
             pages_with_images == Cardinality({i \in sample_indices : doc.pages[i].images})
             is_digital == /\ pages_sampled > 0
                           /\ SumChars(doc.pages, with_text)
                                 > text_density_threshold_chars * pages_sampled
                           /\ 5 * pages_with_text >= 3 * pages_sampled
             likely_scanned == IF pages_sampled > 0
                                  /\ 5 * pages_with_images > 4 * pages_sampled
                                  /\ pages_with_text = 0
                               THEN TRUE ELSE ~is_digital
         IN  [raised |-> FALSE,
              pdf_type |-> IF likely_scanned THEN "scanned" ELSE "digital",
              confidence100 |->
                  IF pages_sampled = 0 THEN 0
                  ELSE Min(RoundDiv(10000 * pages_with_text - 5000 * pages_with_images,
                                    pages_sampled), ConfidenceCap100),
              total_pages |-> doc.total_pages,
              sample_indices |-> sample_indices,
              pages_sampled |-> pages_sampled,
              pages_with_text |-> pages_with_text,
              pages_with_images |-> pages_with_images,
              text_page_ratio100 |->
                  IF pages_sampled = 0 THEN 0
                  ELSE RoundDiv(100 * pages_with_text, pages_sampled)]

(* detect_pdf_type without its except branch: a read error is raised.      *)
DetectPdfTypeRaising(doc) ==
    IF ~doc.readable
    THEN [raised |-> TRUE, pdf_type |-> None, confidence100 |-> 0]
    ELSE DetectPdfTypeInclusive(doc)

(* detect_pdf_type.  Any exception gives type 'unknown' with confidence 0. *)
(* text_density > 0.1 * 1000 is sum > 100 * pages_sampled, text_page_ratio *)
(* > 0.6 is 5 * pages_with_text > 3 * pages_sampled, image_page_ratio >    *)
(* 0.8 is 5 * pages_with_images > 4 * pages_sampled.                       *)
DetectPdfType(doc) ==
    IF ~doc.readable
    THEN [raised |-> FALSE, pdf_type |-> "unknown", confidence100 |-> 0]
    ELSE LET sample_indices == SampleIndices(doc.total_pages)
             with_text == {i \in sample_indices : doc.pages[i].chars > text_threshold}
             pages_sampled == Cardinality(sample_indices)
             pages_with_text == Cardinality(with_text)
             pages_with_images == Cardinality({i \in sample_indices : doc.pages[i].images})
             is_digital == /\ pages_sampled > 0
                           /\ SumChars(doc.pages, with_text)
                                 > text_density_threshold_chars * pages_sampled
                           /\ 5 * pages_with_text > 3 * pages_sampled
             likely_scanned == IF pages_sampled > 0
                                  /\ 5 * pages_with_images > 4 * pages_sampled
                                  /\ pages_with_text = 0
                               THEN TRUE ELSE ~is_digital
         IN  [raised |-> FALSE,
              pdf_type |-> IF likely_scanned THEN "scanned" ELSE "digital",
              confidence100 |->
                  IF pages_sampled = 0 THEN 0
                  ELSE Min(RoundDiv(10000 * pages_with_text - 5000 * pages_with_images,
                                    pages_sampled), ConfidenceCap100),
              total_pages |-> doc.total_pages,
              sample_indices |-> sample_indices,
              pages_sampled |-> pages_sampled,
              pages_with_text |-> pages_with_text,
              pages_with_images |-> pages_with_images,
              text_page_ratio100 |->
                  IF pages_sampled = 0 THEN 0
                  ELSE RoundDiv(100 * pages_with_text, pages_sampled)]

-----------------------------------------------------------------------------
(* GrobidClient                                                            *)
(*                                                                         *)
(* A metadata dictionary is a record of its key set and of the values the  *)
(* pipeline reads; a value whose key is absent is not looked at.           *)
(* A TEI response: whether it parses, what the abstract and first author   *)
(* elements hold, and how many biblStruct elements carry a title.          *)

Metadata(keys, source, file_name, file_size, appears_academic, reference_count) ==
    [keys |-> keys, source |-> source, file_name |-> file_name,
     file_size |-> file_size, appears_academic |-> appears_academic,
     reference_count |-> reference_count]

(* metadata.get(key): the truth value of the entry, False when absent.     *)
Truthy(m, key) ==
    /\ key \in m.keys
    /\ CASE key = "appears_academic" -> m.appears_academic
         [] key = "file_name" -> m.file_name /= None /\ m.file_name /= ""
         [] key = "file_size" -> m.file_size /= 0
         [] key = "references" -> m.reference_count > 0
         [] OTHER -> TRUE

(* How many of the conditions hold.                                        *)
CountTrue(flags) == Cardinality({i \in 1..Len(flags) : flags[i]})

(* _parse_xml with a majority of the four indicators required.             *)
ParseXmlMajority(xml) ==
    IF ~xml.well_formed
    THEN Metadata({}, None, None, 0, FALSE, 0)
    ELSE LET has_abstract == xml.abstract = "text"
             has_author == xml.author = "surname"
             academic_indicators ==
                 <<has_abstract, has_author, xml.titled_refs > 0, xml.titled_refs > 3>>
         IN  Metadata({"references", "reference_count", "appears_academic"}
                        \cup (IF has_abstract THEN {"abstract"} ELSE {})
                        \cup (IF has_author THEN {"author"} ELSE {}),
                      None, None, 0, CountTrue(academic_indicators) >= 3, xml.titled_refs)

(* _parse_xml: {} when the content does not parse; else the abstract when  *)
(* its element has text, the author when the element has a surname, the    *)
(* references that have a title, their count, and appears_academic.        *)
ParseXml(xml) ==
    IF ~xml.well_formed
    THEN Metadata({}, None, None, 0, FALSE, 0)
    ELSE LET has_abstract == xml.abstract = "text"
             has_author == xml.author = "surname"
             academic_indicators ==
                 <<has_abstract, has_author, xml.titled_refs > 0, xml.titled_refs > 3>>
         IN  Metadata({"references", "reference_count", "appears_academic"}
                        \cup (IF has_abstract THEN {"abstract"} ELSE {})
                        \cup (IF has_author THEN {"author"} ELSE {}),
                      None, None, 0, CountTrue(academic_indicators) >= 2, xml.titled_refs)

(* What the service does: is_available() false ("down"), the POST raising  *)
(* ("raises", a timeout included), a status other than 200 ("status"), or  *)
(* a 200 answer ("ok").                                                    *)
GrobidServiceOutcomes == {"down", "raises", "status", "ok"}

GrobidError == Metadata({"error", "success", "source"}, "grobid", None, 0, FALSE, 0)

(* GrobidClient.extract_metadata: success is set on whatever _parse_xml    *)
(* returned.                                                               *)
GrobidExtractMetadata(service, xml) ==
    IF service /= "ok"
    THEN [success |-> FALSE, metadata |-> GrobidError]
    ELSE LET parsed == ParseXml(xml) IN
         [success |-> TRUE,
          metadata |-> [parsed EXCEPT !.keys = @ \cup {"source", "success"},
                                      !.source = "grobid"]]

-----------------------------------------------------------------------------
(* PDFProcessor: helpers                                                   *)

(* _validate_pdf without its size limit.                                   *)
ValidatePdfNoSizeLimit(defect) == defect \in {"ok", "too_large"}

(* _validate_pdf: the file exists, is named .pdf, is at most 100 MB, opens *)
(* and has a page.                                                         *)
ValidatePdf(defect) == defect = "ok"

(* A page: the length of its native text after trimming, and the length of *)
(* the OCR text after trimming, -1 when OCR fails (_perform_ocr is None).  *)
NativeLens == {0, MinNativeChars - 1, MinNativeChars}

OcrLens == {-1, 0, MinOcrChars, MinOcrChars + 1}

PageKinds == [native : NativeLens, ocr : OcrLens]

OcrInvoked(page) == page.native < MinNativeChars

OcrUsed(page) == OcrInvoked(page) /\ page.ocr /= -1 /\ page.ocr > MinOcrChars

(* _extract_text: per page the OCR text when OCR ran and gave more than 10 *)
(* characters, else the native text; the cleaned text is empty when no     *)
(* page contributes a character, or when the document does not open.       *)
ExtractText(pages, opens) ==
    IF ~opens
    THEN [nonempty |-> FALSE, total_pages |-> 0, pages_processed |-> 0,
          ocr_pages |-> <<>>, parts |-> <<>>]
    ELSE LET part(i) == IF OcrUsed(pages[i])
                        THEN [method |-> "ocr", len |-> pages[i].ocr]
                        ELSE IF OcrInvoked(pages[i])
                             THEN [method |-> "text_fallback", len |-> pages[i].native]
                             ELSE [method |-> "text", len |-> pages[i].native]
             parts == [i \in 1..Len(pages) |-> part(i)]
         IN  [nonempty |-> \E i \in 1..Len(pages) : parts[i].len > 0,
              total_pages |-> Len(pages),
              pages_processed |-> Len(pages),
              ocr_pages |-> SelectSeq([i \in 1..Len(pages) |-> i],
                                      LAMBDA i : parts[i].method = "ocr"),
              parts |-> parts]

(* _extract_metadata: the academic service's metadata for a digital PDF    *)
(* when the service succeeds, else the basic (embedded) metadata.          *)
ExtractMetadata(file_name, pdf_type, grobid) ==
    IF pdf_type = "digital" /\ grobid /= "failed"
    THEN [source |-> "grobid", file_name |-> None,
          appears_academic |-> (grobid = "academic")]
    ELSE [source |-> "basic", file_name |-> file_name, appears_academic |-> FALSE]

(* _extract_basic_metadata: the embedded properties with the file's name   *)
(* and size; when reading them fails, the name with file_size 0.           *)
BasicKeys ==
    {"title", "author", "page_count", "file_name", "file_size", "source",
     "appears_academic"}

ExtractBasicMetadata(file_name, file_size, basic) ==
    IF basic = "ok"
    THEN Metadata(BasicKeys, "basic", file_name, file_size, FALSE, 0)
    ELSE Metadata(BasicKeys \cup {"error"}, "basic", file_name, 0, FALSE, 0)

(* _extract_metadata in full: what extract_metadata of the academic        *)
(* service returned when the type is 'digital' and success is set, else    *)
(* the basic metadata.                                                     *)
ExtractMetadataDict(file_name, file_size, pdf_type, service, xml, basic) ==
    LET grobid == GrobidExtractMetadata(service, xml) IN
    IF pdf_type = "digital" /\ grobid.success
    THEN grobid.metadata
    ELSE ExtractBasicMetadata(file_name, file_size, basic)

(* The file name and size filled in only when the key is absent.           *)
FillFileFieldsAbsentOnly(metadata, file_name, file_size) ==
    [metadata EXCEPT
        !.keys = @ \cup {"file_name", "file_size"},
        !.file_name = IF "file_name" \notin metadata.keys THEN file_name ELSE @,
        !.file_size = IF "file_size" \notin metadata.keys THEN file_size ELSE @]

(* process_pdf, after step 4: file_name and file_size are set from the     *)
(* path when the key is absent or its value is empty.                      *)
FillFileFields(metadata, file_name, file_size) ==
    [metadata EXCEPT
        !.keys = @ \cup {"file_name", "file_size"},
        !.file_name = IF ~Truthy(metadata, "file_name") THEN file_name ELSE @,
        !.file_size = IF ~Truthy(metadata, "file_size") THEN file_size ELSE @]

(* What process_pdf reads of the metadata, in the terms of ExtractMetadata: *)
(* the academic service's answer with appears_academic set, without it, or *)
(* the basic metadata.                                                     *)
GrobidOutcomeOf(metadata) ==
    IF metadata.source /= "grobid" THEN "failed"
    ELSE IF Truthy(metadata, "appears_academic") THEN "academic" ELSE "plain"

(* The check on the extracted text left out.                               *)
NoTextExtractedUnchecked(text) == FALSE

(* if not full_text.strip(): raise ValueError("No text content ...")       *)
NoTextExtracted(text) == ~text.nonempty

(* What process_pdf returns from its except branch.                        *)
FailedResult(step) ==
    [op |-> "process_pdf", success |-> FALSE, step |-> step, document_id |-> NoneId,
     pdf_type |-> "unknown", chunks |-> 0, has_embeddings |-> FALSE,
     stored_in_vectordb |-> FALSE, saved_to_database |-> FALSE,
     processing_status |-> "failed"]

-----------------------------------------------------------------------------
(* PDFProcessor.process_pdf                                                *)
(*                                                                         *)
(* pdf: [file_name, content, defect, pdf_type, text, grobid, segs], where  *)
(* text is what _extract_text gives for it and segs what the splitter      *)
(* emits for its text.  env: how the collaborators answer during the call: *)
(* [insert, temp_id, embed, collection, backend, dupPolicy, update].       *)
ProcessPdfCall(reg, nid, idx, pdf, document_id_arg, env) ==
    LET unchanged(res) == [registry |-> reg, nextId |-> nid, index |-> idx, result |-> res]
    IN
    IF ~ValidatePdf(pdf.defect) THEN unchanged(FailedResult("validation"))
    ELSE IF NoTextExtracted(pdf.text) THEN unchanged(FailedResult("text_extraction"))
    ELSE
    LET extracted == ExtractMetadata(pdf.file_name, pdf.pdf_type, pdf.grobid)
        metadata == IF extracted.file_name = None
                    THEN [extracted EXCEPT !.file_name = pdf.file_name]
                    ELSE extracted
        given == document_id_arg /= NoneId /\ document_id_arg /= 0
        ins == IF given
               THEN [id |-> NoneId, registry |-> reg, nextId |-> nid]
               ELSE InsertDocumentMetadata(reg, nid, metadata.file_name,
                                           pdf.pdf_type, env.insert)
        db_document_id == ins.id
        document_id == IF given THEN document_id_arg
                       ELSE IF db_document_id /= NoneId THEN db_document_id
                       ELSE env.temp_id
        is_research == metadata.appears_academic
        chunked == IF is_research
                   THEN ChunkResearchPaper(pdf.content, pdf.segs)
                   ELSE ChunkText(pdf.content, pdf.segs, default_chunk_size, default_overlap)
    IN
    IF Len(chunked) = 0
    THEN [registry |-> ins.registry, nextId |-> ins.nextId, index |-> idx,
          result |-> FailedResult("chunking")]
    ELSE
    LET tagged == [i \in 1..Len(chunked) |-> [chunked[i] EXCEPT !.document_id = document_id]]
        enc == EncodeChunks(tagged, env.embed)
        embedding_success == ~enc.raised
        chunks == IF enc.raised THEN tagged ELSE enc.chunks
        stored == IF Len(chunks) > 0 /\ embedding_success
                  THEN StoreChunks(idx, env.collection, chunks, env.backend, env.dupPolicy)
                  ELSE [raised |-> FALSE, ok |-> FALSE, index |-> idx]
        storage_success == (~stored.raised) /\ stored.ok
        upd == IF db_document_id /= NoneId /\ embedding_success /\ storage_success
               THEN UpdateProcessingStatus(ins.registry, db_document_id, Len(chunks),
                                           embedding_success, "completed", env.update)
               ELSE [ok |-> FALSE, registry |-> ins.registry]
    IN  [registry |-> upd.registry,
         nextId |-> ins.nextId,
         index |-> stored.index,
         result |-> [op |-> "process_pdf", success |-> TRUE, step |-> "done",
                     document_id |-> document_id,
                     pdf_type |-> pdf.pdf_type,
                     metadata_source |-> metadata.source,
                     is_research |-> is_research,
                     chunks |-> Len(chunks),
                     chunk_indexes |-> {chunks[i].chunk_index : i \in 1..Len(chunks)},
                     chunk_types |-> {chunks[i].chunk_type : i \in 1..Len(chunks)},
                     chunk_presets |-> {<<chunks[i].chunk_size, chunks[i].chunk_overlap>> :
                                           i \in 1..Len(chunks)},
                     has_embeddings |-> embedding_success,
                     stored_in_vectordb |-> storage_success,
                     saved_to_database |-> (db_document_id /= NoneId),
                     processing_status |-> IF embedding_success /\ storage_success
                                           THEN "completed" ELSE "partial"]]

-----------------------------------------------------------------------------
(* VectorStore.query_similar                                               *)

RECURSIVE SeqOfSet(_)
SeqOfSet(S) ==
    IF S = {} THEN <<>>
    ELSE LET x == CHOOSE x \in S : TRUE IN <<x>> \o SeqOfSet(S \ {x})

(* query_similar: the n_results nearest entries, of the given document     *)
(* when document_id is given, nearest first; ds[i] is the distance the     *)
(* index reports for the i-th of them.  No collection, or a failing        *)
(* backend call, gives the empty list; the method never raises.            *)
QuerySimilar(idx, collection, backend, n_results, document_id, ds) ==
    IF collection = None
    THEN [raised |-> FALSE, results |-> <<>>]
    ELSE IF backend = "raises"
    THEN [raised |-> FALSE, results |-> <<>>]
    ELSE LET matching == {k \in DOMAIN idx :
                             document_id = None \/ idx[k].metadata.document_id = document_id}
             ranked == SeqOfSet(matching)
             m == Min(n_results, Min(Len(ranked), Len(ds)))
         IN  [raised |-> FALSE,
              results |-> [i \in 1..m |->
                              [content |-> idx[ranked[i]].document,
                               metadata |-> idx[ranked[i]].metadata,
                               distance |-> ds[i]]]]

-----------------------------------------------------------------------------
(* RAGPipeline                                                             *)

(* 1 - chunk["distance"]/2, in hundredths.                                 *)
SimilarityScore100(distance10) == 100 - 5 * distance10

WithScore(chunk) ==
    [content |-> chunk.content, metadata |-> chunk.metadata,
     distance |-> chunk.distance,
     similarity_score |-> SimilarityScore100(chunk.distance)]

(* The filter without its fallback to the top results.                     *)
FilterContextNoFallback(results) ==
    LET passing == SelectSeq(results, LAMBDA c : c.distance <= DistanceThreshold10)
    IN  [i \in 1..Len(passing) |-> WithScore(passing[i])]

(* The filter with a strict comparison against the threshold.              *)
FilterContextStrict(results) ==
    LET passing == SelectSeq(results, LAMBDA c : c.distance < DistanceThreshold10)
        kept == IF Len(passing) = 0 /\ Len(results) > 0
                THEN SubSeq(results, 1, Min(FallbackTop, Len(results)))
                ELSE passing
    IN  [i \in 1..Len(kept) |-> WithScore(kept[i])]

(* The filter of _retrieve_context: the results within the distance        *)
(* threshold, and the top results when none is.                            *)
FilterContext(results) ==
    LET passing == SelectSeq(results, LAMBDA c : c.distance <= DistanceThreshold10)
        kept == IF Len(passing) = 0 /\ Len(results) > 0
                THEN SubSeq(results, 1, Min(FallbackTop, Len(results)))
                ELSE passing
    IN  [i \in 1..Len(kept) |-> WithScore(kept[i])]

(* _retrieve_context: encode the query, ask the index, filter.  Any        *)
(* exception (a failing encode_text) gives success False and no chunks.    *)
RetrieveContext(idx, document_id, env) ==
    IF env.embed = "fails"
    THEN [success |-> FALSE, chunks |-> <<>>, queried |-> FALSE, results |-> <<>>]
    ELSE LET scope == IF document_id = NoneId \/ document_id = 0
                      THEN None ELSE Str(document_id)
             q == QuerySimilar(idx, env.collection, env.backend, max_chunks, scope, env.ds)
         IN  IF q.raised
             THEN [success |-> FALSE, chunks |-> <<>>, queried |-> TRUE, results |-> <<>>]
             ELSE [success |-> TRUE, chunks |-> FilterContext(q.results),
                   queried |-> TRUE, results |-> q.results]

(* _generate_response: the LLM's answer; a failing call is caught and      *)
(* answered with a fixed text.                                             *)
GenerateResponse(chunks, llm) ==
    IF llm = "fails"
    THEN [success |-> FALSE, response |-> "Error generating response.", raised |-> FALSE]
    ELSE [success |-> TRUE, response |-> "llm_answer", raised |-> FALSE]

(* _format_response                                                        *)
FormatResponse(answer, chunks) ==
    [op |-> "query", success |-> TRUE, answer |-> answer,
     sources |-> [i \in 1..Len(chunks) |-> chunks[i].metadata.document_id],
     reason |-> None, error |-> None]

(* query                                                                   *)
QueryCall(idx, document_id, env) ==
    LET retrieval_results == RetrieveContext(idx, document_id, env) IN
    IF Len(retrieval_results.chunks) = 0
    THEN [op |-> "query", success |-> TRUE,
          answer |-> "No relevant information found. Please rephrase or check the document.",
          sources |-> <<>>, reason |-> "no_relevant_context", error |-> None]
    ELSE LET llm_response == GenerateResponse(retrieval_results.chunks, env.llm) IN
         IF llm_response.raised
         THEN [op |-> "query", success |-> FALSE, answer |-> "Error processing your question.",
               sources |-> <<>>, reason |-> None, error |-> "exception"]
         ELSE FormatResponse(llm_response.response, retrieval_results.chunks)

(* _generate_summary answering a failed LLM call with a fixed text, as     *)
(* _generate_response does.                                                *)
GenerateSummarySwallowing(chunks, llm) ==
    IF llm = "fails"
    THEN [raised |-> FALSE, summary |-> "Error generating summary.", key_points |-> "bullet_points"]
    ELSE [raised |-> FALSE, summary |-> "llm_summary", key_points |-> "bullet_points"]

(* _generate_summary: re-raises when the LLM call fails.                   *)
GenerateSummary(chunks, llm) ==
    IF llm = "fails"
    THEN [raised |-> TRUE, summary |-> None, key_points |-> None]
    ELSE [raised |-> FALSE, summary |-> "llm_summary", key_points |-> "bullet_points"]

(* generate_document_summary without its check that chunks were           *)
(* retrieved.                                                              *)
GenerateDocumentSummaryUnchecked(reg, idx, document_id, env) ==
    IF GetDocumentMetadata(reg, document_id, env.db) = NoRow
    THEN [op |-> "generate_document_summary", success |-> FALSE,
          error |-> "Document not found", summary |-> None, key_points |-> None,
          llm_called |-> FALSE]
    ELSE LET summary_response ==
                 GenerateSummary(RetrieveContext(idx, document_id, env).chunks, env.llm)
         IN  IF summary_response.raised
             THEN [op |-> "generate_document_summary", success |-> FALSE,
                   error |-> "exception", summary |-> None, key_points |-> None,
                   llm_called |-> TRUE]
             ELSE [op |-> "generate_document_summary", success |-> TRUE, error |-> None,
                   summary |-> summary_response.summary,
                   key_points |-> summary_response.key_points,
                   llm_called |-> TRUE]

(* generate_document_summary                                               *)
GenerateDocumentSummaryCall(reg, idx, document_id, env) ==
    LET doc_info == GetDocumentMetadata(reg, document_id, env.db)
        failed(error, called) ==
            [op |-> "generate_document_summary", success |-> FALSE, error |-> error,
             summary |-> None, key_points |-> None, llm_called |-> called]
    IN
    IF doc_info = NoRow THEN failed("Document not found", FALSE)
    ELSE LET chunks == RetrieveContext(idx, document_id, env).chunks IN
         IF Len(chunks) = 0 THEN failed("No content found for summarization", FALSE)
         ELSE LET summary_response == GenerateSummary(chunks, env.llm) IN
              IF summary_response.raised THEN failed("exception", TRUE)
              ELSE [op |-> "generate_document_summary", success |-> TRUE, error |-> None,
                    summary |-> summary_response.summary,
                    key_points |-> summary_response.key_points,
                    llm_called |-> TRUE]

(* The lines of an LLM reply: a question (has a '?' and more than 10        *)
(* characters after trimming), a short line with a '?', a line without     *)
(* '?', a blank line.                                                      *)
LineKinds == {"question", "short", "statement", "blank"}

(* _parse_questions: the lines that are not blank, contain '?' and are     *)
(* longer than 10 characters, in order; a kept line is named by its        *)
(* position in the reply.                                                  *)
ParseQuestions(lines) ==
    LET kept == SelectSeq([i \in 1..Len(lines) |-> i],
                          LAMBDA i : lines[i] = "question")
    IN  [j \in 1..Len(kept) |-> "line " \o ToString(kept[j])]

(* The questions _generate_questions returns when the LLM call fails.      *)
FallbackQuestions ==
    <<"What are the main findings of this document?",
      "What methodology was used in this research?",
      "What are the practical applications mentioned?",
      "What limitations or future work are discussed?">>

(* _generate_questions without the cut to the first four questions.        *)
GenerateQuestionsUncut(lines, llm) ==
    IF llm = "fails" THEN FallbackQuestions ELSE ParseQuestions(lines)

(* _generate_questions: the first four parsed questions of the reply; the  *)
(* fixed questions when the call (or the parsing) raises.                  *)
GenerateQuestions(lines, llm) ==
    IF llm = "fails"
    THEN FallbackQuestions
    ELSE LET parsed == ParseQuestions(lines)
         IN  SubSeq(parsed, 1, Min(MaxSuggestedQuestions, Len(parsed)))

(* generate_question_suggestions                                           *)
GenerateQuestionSuggestionsCall(reg, idx, document_id, env, lines) ==
    LET doc_info == GetDocumentMetadata(reg, document_id, env.db)
        failed(error) ==
            [op |-> "generate_question_suggestions", success |-> FALSE,
             error |-> error, questions |-> <<>>]
    IN
    IF doc_info = NoRow THEN failed("Document not found")
    ELSE LET chunks == RetrieveContext(idx, document_id, env).chunks IN
         IF Len(chunks) = 0 THEN failed("No content found for question generation")
         ELSE [op |-> "generate_question_suggestions", success |-> TRUE,
               error |-> None, questions |-> GenerateQuestions(lines, env.llm)]

-----------------------------------------------------------------------------
(* PDFProcessor.reprocess_document and delete_document                     *)

(* reprocess_document: self.vector_store.delete_document_chunks(...) is    *)
(* looked up first; VectorStore defines no such method, the lookup raises  *)
(* AttributeError and the except branch returns.  process_pdf is reached   *)
(* only when the method exists.                                            *)
ReprocessDocumentCall(reg, nid, idx, document_id, pdf, env) ==
    IF "delete_document_chunks" \notin VectorStoreMethods
    THEN [registry |-> reg, nextId |-> nid, index |-> idx,
          result |-> [op |-> "reprocess_document", success |-> FALSE,
                      error |-> "AttributeError", document_id |-> document_id]]
    ELSE LET r == ProcessPdfCall(reg, nid, idx, pdf, document_id, env)
         IN  [r EXCEPT !.result.op = "reprocess_document"]

(* PDFProcessor.delete_document: the attribute lookup of                   *)
(* self.vector_store.delete_document_chunks comes first; VectorStore       *)
(* defines no such method, the lookup raises AttributeError and the except *)
(* branch returns False before the registry is asked.  The registry row is *)
(* deleted only when the method exists.                                    *)
DeleteDocumentCall(reg, idx, document_id, db) ==
    IF "delete_document_chunks" \notin VectorStoreMethods
    THEN [registry |-> reg, index |-> idx,
          result |-> [op |-> "delete_document", success |-> FALSE,
                      error |-> "AttributeError"]]
    ELSE LET kept == {k \in DOMAIN idx : idx[k].metadata.document_id /= Str(document_id)}
             deleted == DatabaseDeleteDocument(reg, document_id, db)
         IN  [registry |-> deleted.registry, index |-> [k \in kept |-> idx[k]],
              result |-> [op |-> "delete_document", success |-> deleted.ok,
                          error |-> None]]

(* The chunk set a run of process_pdf generates for a pdf under an id.     *)
NewChunkSet(document_id, pdf) ==
    LET chunks == ChunkText(pdf.content, pdf.segs, default_chunk_size, default_overlap)
    IN  {[id |-> ChunkId(document_id, chunks[i].chunk_index),
          document |-> chunks[i].content] : i \in 1..Len(chunks)}

(* The entries of the index whose metadata names the document.             *)
EntriesOf(idx, document_id) ==
    {[id |-> k, document |-> idx[k].document] :
        k \in {k \in DOMAIN idx : idx[k].metadata.document_id = Str(document_id)}}

-----------------------------------------------------------------------------
(* Inputs                                                                  *)

PageSeqs == UNION {[1..k -> PageKinds] : k \in 1..MaxPages}

(* What _extract_text can give, as far as process_pdf looks at it.         *)
ExtractionOutcomes ==
    {[nonempty |-> ExtractText(p, o).nonempty] : p \in PageSeqs, o \in BOOLEAN}

(* What the splitter emits for the cleaned text, TRUE for a segment with   *)
(* content.  The handlers of Spec are run with outputs whose segments all  *)
(* have content; SpecChunk runs process_pdf on outputs with blank          *)
(* segments as well.                                                       *)
SegmentSeqs == {[i \in 1..n |-> TRUE] : n \in 0..MaxSegments}

(* A pdf that passes validation and has text.  An upload carries the      *)
(* content "v1" of its file; the pdf given to reprocess_document may      *)
(* carry either content.  The academic service is asked for digital pdfs  *)
(* only.                                                                   *)
MetadataCases ==
    {<<t, g>> \in PdfTypes \X GrobidOutcomes : t = "digital" \/ g = "failed"}

GoodPdfs ==
    {[file_name |-> f, content |-> c, defect |-> "ok", pdf_type |-> m[1],
      grobid |-> m[2], text |-> t, segs |-> s] :
        f \in FileNames, c \in Contents, m \in MetadataCases,
        t \in {t \in ExtractionOutcomes : t.nonempty}, s \in SegmentSeqs}

UploadedPdfs ==
    {p \in GoodPdfs : /\ p.content = "v1"
                      /\ <<p.pdf_type, p.grobid>> \in
                            {<<"digital", "academic">>, <<"scanned", "failed">>}}

ReprocessedPdfs(file_name) ==
    {p \in GoodPdfs : p.file_name = file_name /\ p.pdf_type = "scanned"}

(* A pdf that fails validation, or gives no text.                          *)
BadPdfs ==
    {[file_name |-> f, content |-> "v1", defect |-> d, pdf_type |-> "unknown",
      grobid |-> "failed", text |-> t, segs |-> <<>>] :
        f \in FileNames, d \in Defects \ {"ok"},
        t \in {t \in ExtractionOutcomes : ~t.nonempty}}
    \cup
    {[file_name |-> f, content |-> "v1", defect |-> "ok", pdf_type |-> "scanned",
      grobid |-> "failed", text |-> t, segs |-> <<>>] :
        f \in FileNames, t \in {t \in ExtractionOutcomes : ~t.nonempty}}

(* How the collaborators answer during one process_pdf.  A field that the  *)
(* call cannot reach keeps its first value: no temporary id is drawn when  *)
(* the insert succeeds, the index is not asked when embedding fails, and   *)
(* the status update is not made when storing fails.                       *)
AllIngestEnvs ==
    [insert : {"ok", "fails"}, temp_id : TempIds, embed : {"ok", "fails"},
     collection : {"connected", None}, backend : {"ok", "raises"},
     dupPolicy : {"skip", "raise"}, update : {"ok", "fails"}]

IngestEnvs ==
    {e \in AllIngestEnvs :
        /\ e.insert = "ok" => e.temp_id = 0
        /\ e.embed = "fails" => e.collection = "connected" /\ e.backend = "ok"
        /\ e.collection = None => e.backend = "ok"
        /\ (e.embed = "fails" \/ e.collection = None \/ e.backend = "raises")
              => e.dupPolicy = "skip" /\ e.update = "ok"}

HealthyIngestEnvs ==
    {e \in IngestEnvs : e.insert = "ok" /\ e.embed = "ok" /\ e.collection /= None
                           /\ e.backend = "ok" /\ e.update = "ok" /\ e.dupPolicy = "skip"}

(* The calls of process_pdf: a pdf and the collaborators' answers; a pdf   *)
(* that is rejected reaches no collaborator.                               *)
IngestInputs == (UploadedPdfs \X IngestEnvs) \cup (BadPdfs \X HealthyIngestEnvs)

(* The distances the index reports for the results of one query: nearest   *)
(* first.                                                                  *)
SortedDistances ==
    {ds \in [1..max_chunks -> Distances] :
        \A i \in 1..(max_chunks - 1) : ds[i] <= ds[i + 1]}

(* The handlers are run with distances on both sides of the threshold.     *)
QueryDistances == {ds \in SortedDistances : Range(ds) \subseteq {9, 16}}

IndexReachable(env) == env.collection /= None /\ env.backend = "ok"

AllRagEnvs ==
    [embed : {"ok", "fails"}, collection : {"connected", None},
     backend : {"ok", "raises"}, llm : {"ok", "fails"}, db : {"ok", "fails"},
     ds : QueryDistances]

(* As for IngestEnvs: the index is not asked when the query cannot be      *)
(* encoded, and no distance is reported when the index is not reached.     *)
RagEnvs ==
    {e \in AllRagEnvs :
        /\ e.embed = "fails" => e.collection = "connected" /\ e.backend = "ok"
        /\ e.collection = None => e.backend = "ok"
        /\ (e.embed = "fails" \/ e.collection = None \/ e.backend = "raises")
              => e.llm = "ok" /\ \A i \in 1..max_chunks : e.ds[i] = 9
        /\ e.db = "fails" => e.embed = "ok" /\ IndexReachable(e) /\ e.llm = "ok"
                                /\ \A i \in 1..max_chunks : e.ds[i] = 9}

(* The replies of the LLM to the question prompt: a heading, n questions,  *)
(* a short question and a blank line.                                      *)
QuestionReply(n) ==
    <<"statement">> \o [i \in 1..n |-> "question"] \o <<"short", "blank">>

QuestionReplies == {QuestionReply(n) : n \in 0..MaxQuestionLines}

(* The reply is read only when the LLM is reached and answers.             *)
QuestionInputs ==
    {<<e, l>> \in RagEnvs \X QuestionReplies :
        \/ l = QuestionReply(0)
        \/ /\ e.llm = "ok" /\ e.embed = "ok" /\ IndexReachable(e) /\ e.db = "ok"
           /\ \A i \in 1..max_chunks : e.ds[i] = 9}

-----------------------------------------------------------------------------
(* The handlers                                                            *)

Init ==
    /\ registry = <<>>
    /\ nextId = 1
    /\ index = <<>>
    /\ call = [op |-> "init"]
    /\ result = [op |-> "init"]
    /\ procs = <<>>

ProcessPdf ==
    \E input \in IngestInputs :
      LET pdf == input[1]
          env == input[2]
      IN
        /\ nextId <= MaxDocs \/ IdsOfFile(registry, pdf.file_name) /= {} \/ env.insert = "fails"
        /\ LET r == ProcessPdfCall(registry, nextId, index, pdf, NoneId, env) IN
           /\ registry' = r.registry
           /\ nextId' = r.nextId
           /\ index' = r.index
           /\ result' = r.result
           /\ UNCHANGED procs
           /\ call' = [op |-> "process_pdf", file_name |-> pdf.file_name,
                       document_id |-> NoneId,
                       known |-> IdsOfFile(registry, pdf.file_name) /= {},
                       valid |-> pdf.defect = "ok",
                       text_nonempty |-> pdf.text.nonempty,
                       index_reachable |-> IndexReachable(env),
                       embed |-> env.embed]

ReprocessDocument ==
    \E document_id \in DOMAIN registry, env \in HealthyIngestEnvs :
      \E pdf \in ReprocessedPdfs(registry[document_id].file_name) :
        LET r == ReprocessDocumentCall(registry, nextId, index, document_id, pdf, env) IN
        /\ registry' = r.registry
        /\ nextId' = r.nextId
        /\ index' = r.index
        /\ result' = r.result
        /\ UNCHANGED procs
        /\ call' = [op |-> "reprocess_document", file_name |-> pdf.file_name,
                    document_id |-> document_id,
                    new_chunks |-> NewChunkSet(document_id, pdf),
                    had_chunks |-> EntriesOf(index, document_id) /= {}]

Query ==
    \E document_id \in {NoneId} \cup 0..MaxDocs, env \in {e \in RagEnvs : e.db = "ok"} :
        /\ result' = QueryCall(index, document_id, env)
        /\ call' = [op |-> "query", document_id |-> document_id,
                    index_reachable |-> IndexReachable(env),
                    embed |-> env.embed, llm |-> env.llm,
                    context |-> Len(RetrieveContext(index, document_id, env).chunks) > 0]
        /\ UNCHANGED <<registry, nextId, index, procs>>

GenerateDocumentSummary ==
    \E document_id \in 1..MaxDocs, env \in RagEnvs :
        /\ result' = GenerateDocumentSummaryCall(registry, index, document_id, env)
        /\ call' = [op |-> "generate_document_summary", document_id |-> document_id,
                    index_reachable |-> IndexReachable(env),
                    embed |-> env.embed, llm |-> env.llm, db |-> env.db,
                    context |-> /\ GetDocumentMetadata(registry, document_id, env.db) /= NoRow
                                /\ Len(RetrieveContext(index, document_id, env).chunks) > 0]
        /\ UNCHANGED <<registry, nextId, index, procs>>

GenerateQuestionSuggestions ==
    \E document_id \in 1..MaxDocs, input \in QuestionInputs :
        LET env == input[1]
            lines == input[2]
        IN
        /\ result' = GenerateQuestionSuggestionsCall(registry, index, document_id, env, lines)
        /\ call' = [op |-> "generate_question_suggestions", document_id |-> document_id,
                    index_reachable |-> IndexReachable(env),
                    embed |-> env.embed, llm |-> env.llm, db |-> env.db,
                    question_lines |-> Cardinality({i \in 1..Len(lines) : lines[i] = "question"}),
                    context |-> /\ GetDocumentMetadata(registry, document_id, env.db) /= NoRow
                                /\ Len(RetrieveContext(index, document_id, env).chunks) > 0]
        /\ UNCHANGED <<registry, nextId, index, procs>>

DeleteDocument ==
    \E document_id \in DOMAIN registry :
        LET r == DeleteDocumentCall(registry, index, document_id, "ok") IN
        /\ registry' = r.registry
        /\ index' = r.index
        /\ result' = r.result
        /\ call' = [op |-> "delete_document", document_id |-> document_id,
                    had_chunks |-> EntriesOf(index, document_id) /= {}]
        /\ UNCHANGED <<nextId, procs>>

Next ==
    \/ ProcessPdf
    \/ ReprocessDocument
    \/ DeleteDocument
    \/ Query
    \/ GenerateDocumentSummary
    \/ GenerateQuestionSuggestions

Spec == Init /\ [][Next]_vars

-----------------------------------------------------------------------------
(* _retrieve_context on its own: an index that holds the chunks of one     *)
(* stored document, asked with every ranking of distances.                 *)

MaxStored == 6

StoredIndex(n) ==
    [k \in {ChunkId(1, i) : i \in 0..(n - 1)} |->
        LET i == CHOOSE i \in 0..(n - 1) : ChunkId(1, i) = k
        IN  [document |-> <<"v1", i>>,
             metadata |-> [document_id |-> Str(1), chunk_index |-> i, source |-> "pdf"]]]

RetrieveEnvs ==
    {e \in [embed : {"ok", "fails"}, collection : {"connected", None},
            backend : {"ok", "raises"}, llm : {"ok"}, db : {"ok"},
            ds : SortedDistances] :
        (e.embed = "fails" \/ ~IndexReachable(e)) => \A i \in 1..max_chunks : e.ds[i] = 9}

InitRetrieve ==
    /\ registry = <<>>
    /\ nextId = 1
    /\ index \in {StoredIndex(n) : n \in 0..MaxStored}
    /\ call = [op |-> "init"]
    /\ result = [op |-> "init"]
    /\ procs = <<>>

RetrieveContextStep ==
    \E document_id \in {NoneId, 1}, env \in RetrieveEnvs :
        LET r == RetrieveContext(index, document_id, env) IN
        /\ call' = [op |-> "_retrieve_context", queried |-> r.queried,
                    results |-> r.results]
        /\ result' = [op |-> "_retrieve_context", success |-> r.success,
                      chunks |-> r.chunks]
        /\ UNCHANGED <<registry, nextId, index, procs>>

NextRetrieve == RetrieveContextStep

SpecRetrieve == InitRetrieve /\ [][NextRetrieve]_vars

-----------------------------------------------------------------------------
(* The first process_pdf of a fresh installation, with every outcome of    *)
(* the classification and every output of the splitter: segments with      *)
(* content and blank ones in any order, under both chunking strategies.    *)

MaxChunkSegments == 3

(* One-page documents the analyzer classifies as digital and as scanned,   *)
(* and one it cannot read.                                                 *)
OnePageDoc(readable, chars) ==
    [readable |-> readable, total_pages |-> 1,
     pages |-> [i \in {0} |-> [chars |-> chars, images |-> FALSE]]]

ClassifiedDocs ==
    {OnePageDoc(TRUE, 2 * text_density_threshold_chars),
     OnePageDoc(TRUE, text_threshold),
     OnePageDoc(FALSE, 2 * text_density_threshold_chars)}

ChunkedPdfs ==
    {[file_name |-> FileName(1), content |-> "v1", defect |-> "ok",
      pdf_type |-> DetectPdfType(d).pdf_type, doc |-> d,
      grobid |-> g, text |-> [nonempty |-> TRUE], segs |-> s] :
        d \in {d \in ClassifiedDocs : ~DetectPdfType(d).raised},
        g \in GrobidOutcomes, s \in SeqsUpTo(BOOLEAN, MaxChunkSegments)}
    \cap {p \in [file_name : {FileName(1)}, content : {"v1"}, defect : {"ok"},
                 pdf_type : PdfTypes, doc : ClassifiedDocs, grobid : GrobidOutcomes,
                 text : {[nonempty |-> TRUE]},
                 segs : SeqsUpTo(BOOLEAN, MaxChunkSegments)] :
             <<p.pdf_type, p.grobid>> \in MetadataCases}

InitChunk == Init

ProcessNewPdfStep ==
    \E pdf \in ChunkedPdfs, env \in IngestEnvs :
        /\ call.op = "init"
        /\ LET r == ProcessPdfCall(registry, nextId, index, pdf, NoneId, env) IN
           /\ registry' = r.registry
           /\ nextId' = r.nextId
           /\ index' = r.index
           /\ result' = r.result
           /\ UNCHANGED procs
           /\ call' = [op |-> "process_pdf", file_name |-> pdf.file_name,
                       document_id |-> NoneId, known |-> FALSE, valid |-> TRUE,
                       text_nonempty |-> TRUE,
                       index_reachable |-> IndexReachable(env),
                       embed |-> env.embed,
                       segments |-> pdf.segs,
                       pdf_type |-> pdf.pdf_type,
                       read_error |-> ~pdf.doc.readable]

NextChunk == ProcessNewPdfStep

SpecChunk == InitChunk /\ [][NextChunk]_vars

-----------------------------------------------------------------------------
(* Concurrent runs of process_pdf, one worker per document: worker p       *)
(* processes file p, whose text is its own.  A worker's steps on the       *)
(* shared registry and index are its insert, its store and its status      *)
(* update; what lies between them is local to the worker.                  *)

MaxWorkers == 2

Workers == 1..MaxWorkers

WorkerContent(p) == "text" \o ToString(p)

(* hash(file_name) % 10000 is any id below the modulus, the ids the        *)
(* registry hands out among them.                                          *)
WorkerTempIds == {i \in 0..MaxWorkers : i < TempIdModulus}

InitConcurrent ==
    /\ registry = <<>>
    /\ nextId = 1
    /\ index = <<>>
    /\ call = [op |-> "init"]
    /\ result = [op |-> "init"]
    /\ procs = [p \in Workers |->
                   [pc |-> "insert", document_id |-> NoneId, db_document_id |-> NoneId,
                    chunks |-> <<>>, storage_success |-> FALSE]]

(* Steps 1 to 6 of process_pdf: the insert of the record, the choice of    *)
(* the document id, chunking, tagging and embedding.                       *)
InsertStep(p) ==
    /\ procs[p].pc = "insert"
    /\ \E db \in {"ok", "fails"}, temp_id \in WorkerTempIds, segs \in SegmentSeqs \ {<<>>} :
          LET ins == InsertDocumentMetadata(registry, nextId, FileName(p), "scanned", db)
              document_id == IF ins.id /= NoneId THEN ins.id ELSE temp_id
              chunked == ChunkText(WorkerContent(p), segs, default_chunk_size, default_overlap)
              tagged == [i \in 1..Len(chunked) |->
                            [chunked[i] EXCEPT !.document_id = document_id]]
          IN  /\ db = "ok" => temp_id = 0
              /\ registry' = ins.registry
              /\ nextId' = ins.nextId
              /\ procs' = [procs EXCEPT ![p] =
                              [pc |-> "store", document_id |-> document_id,
                               db_document_id |-> ins.id,
                               chunks |-> EncodeChunks(tagged, "ok").chunks,
                               storage_success |-> FALSE]]
    /\ UNCHANGED <<index, call, result>>

(* Step 7: store_chunks.                                                   *)
StoreStep(p) ==
    /\ procs[p].pc = "store"
    /\ \E dupPolicy \in {"skip", "raise"} :
          LET stored == StoreChunks(index, "connected", procs[p].chunks, "ok", dupPolicy)
          IN  /\ index' = stored.index
              /\ procs' = [procs EXCEPT ![p].pc = "update",
                                        ![p].storage_success = stored.ok /\ ~stored.raised]
    /\ UNCHANGED <<registry, nextId, call, result>>

(* Step 8 and the return.                                                  *)
UpdateStep(p) ==
    /\ procs[p].pc = "update"
    /\ registry' =
          IF procs[p].db_document_id /= NoneId /\ procs[p].storage_success
          THEN UpdateProcessingStatus(registry, procs[p].db_document_id,
                                      Len(procs[p].chunks), TRUE, "completed", "ok").registry
          ELSE registry
    /\ procs' = [procs EXCEPT ![p].pc = "done"]
    /\ call' = [op |-> "process_pdf", file_name |-> FileName(p), worker |-> p]
    /\ result' = [op |-> "process_pdf", success |-> TRUE,
                  document_id |-> procs[p].document_id,
                  stored_in_vectordb |-> procs[p].storage_success,
                  saved_to_database |-> (procs[p].db_document_id /= NoneId)]
    /\ UNCHANGED <<nextId, index>>

NextConcurrent ==
    \E p \in Workers : InsertStep(p) \/ StoreStep(p) \/ UpdateStep(p)

SpecConcurrent == InitConcurrent /\ [][NextConcurrent]_vars

-----------------------------------------------------------------------------
(* detect_pdf_type on its own: documents of up to MaxAnalyzedPages pages   *)
(* and of 20 pages, whose first pages are of one kind and the others of a  *)
(* second kind, and documents that cannot be read.                         *)

MaxAnalyzedPages == 7

AnalyzedPageKinds ==
    [chars : {text_threshold, text_threshold + 1, 2 * text_density_threshold_chars},
     images : BOOLEAN]

AnalyzedPageCounts == 0..MaxAnalyzedPages \cup {20}

AnalyzedDocsOf(n) ==
    {[readable |-> r, total_pages |-> n,
      pages |-> [i \in 0..(n - 1) |-> IF i < a THEN x ELSE y]] :
        r \in BOOLEAN, a \in 0..n, x \in AnalyzedPageKinds, y \in AnalyzedPageKinds}

AnalyzedDocs == UNION {AnalyzedDocsOf(n) : n \in AnalyzedPageCounts}

InitAnalyze ==
    /\ registry = <<>>
    /\ nextId = 1
    /\ index = <<>>
    /\ call \in {[op |-> "open", doc |-> d] : d \in AnalyzedDocs}
    /\ result = [op |-> "init"]
    /\ procs = <<>>

DetectPdfTypeStep ==
    /\ call.op = "open"
    /\ call' = [op |-> "detect_pdf_type", doc |-> call.doc]
    /\ result' = DetectPdfType(call.doc)
    /\ UNCHANGED <<registry, nextId, index, procs>>

NextAnalyze == DetectPdfTypeStep

SpecAnalyze == InitAnalyze /\ [][NextAnalyze]_vars

-----------------------------------------------------------------------------
(* _extract_text on its own: documents of up to MaxPages pages, every page *)
(* with a native text and an OCR outcome on either side of the two         *)
(* minimum lengths, and documents that do not open.                        *)

InitExtract ==
    /\ registry = <<>>
    /\ nextId = 1
    /\ index = <<>>
    /\ call \in {[op |-> "open", pages |-> ps, opens |-> o] :
                    ps \in PageSeqs, o \in BOOLEAN}
    /\ result = [op |-> "init"]
    /\ procs = <<>>

ExtractTextStep ==
    /\ call.op = "open"
    /\ call' = [op |-> "_extract_text", pages |-> call.pages, opens |-> call.opens]
    /\ result' = ExtractText(call.pages, call.opens)
    /\ UNCHANGED <<registry, nextId, index, procs>>

NextExtract == ExtractTextStep

SpecExtract == InitExtract /\ [][NextExtract]_vars

-----------------------------------------------------------------------------
(* Metadata extraction: _parse_xml, _extract_metadata and the process_pdf  *)
(* of a new file, with every answer of the academic service, every shape   *)
(* of its response and both outcomes of the basic extraction.              *)

(* References with a title in one response.                                *)
MaxReferences == 4

XmlResponses ==
    {[well_formed |-> FALSE, abstract |-> "absent", author |-> "absent", titled_refs |-> 0]}
    \cup
    [well_formed : {TRUE}, abstract : {"absent", "empty", "text"},
     author : {"absent", "no_surname", "surname"}, titled_refs : 0..MaxReferences]

FileSizes == {1, 2048}

(* The response is read only when the service answered with status 200.    *)
MetadataInputs ==
    {c \in [op : {"open"}, file_name : FileNames, file_size : FileSizes,
            pdf_type : PdfTypes, service : GrobidServiceOutcomes, xml : XmlResponses,
            basic : {"ok", "fails"}, segs : SegmentSeqs] :
        /\ c.service /= "ok" => ~c.xml.well_formed
        /\ c.file_size /= 1 => c.segs = <<TRUE>> /\ c.basic = "fails"}

InitMetadata ==
    /\ registry = <<>>
    /\ nextId = 1
    /\ index = <<>>
    /\ call \in MetadataInputs
    /\ result = [op |-> "init"]
    /\ procs = <<>>

ParseXmlStep ==
    /\ call.op = "open"
    /\ call' = [call EXCEPT !.op = "_parse_xml"]
    /\ result' = ParseXml(call.xml)
    /\ UNCHANGED <<registry, nextId, index, procs>>

ExtractMetadataStep ==
    /\ call.op = "open"
    /\ call' = [call EXCEPT !.op = "_extract_metadata"]
    /\ result' = ExtractMetadataDict(call.file_name, call.file_size, call.pdf_type,
                                     call.service, call.xml, call.basic)
    /\ UNCHANGED <<registry, nextId, index, procs>>

(* process_pdf on a valid file with text; the collaborators after step 4   *)
(* all answer.                                                             *)
ProcessPdfMetadataStep ==
    /\ call.op = "open"
    /\ LET extracted == ExtractMetadataDict(call.file_name, call.file_size, call.pdf_type,
                                            call.service, call.xml, call.basic)
           metadata == FillFileFields(extracted, call.file_name, call.file_size)
           pdf == [file_name |-> call.file_name, content |-> "v1", defect |-> "ok",
                   pdf_type |-> call.pdf_type, grobid |-> GrobidOutcomeOf(extracted),
                   text |-> [nonempty |-> TRUE], segs |-> call.segs]
           env == CHOOSE e \in HealthyIngestEnvs : TRUE
           r == ProcessPdfCall(registry, nextId, index, pdf, NoneId, env)
       IN  /\ registry' = r.registry
           /\ nextId' = r.nextId
           /\ index' = r.index
           /\ result' = r.result @@ [metadata |-> IF r.result.success THEN metadata
                                                  ELSE Metadata({}, None, None, 0, FALSE, 0),
                                     registered |-> [file_name |-> metadata.file_name,
                                                     file_size |-> metadata.file_size]]
           /\ call' = [call EXCEPT !.op = "process_pdf"]
    /\ UNCHANGED procs

NextMetadata ==
    \/ ParseXmlStep
    \/ ExtractMetadataStep
    \/ ProcessPdfMetadataStep

SpecMetadata == InitMetadata /\ [][NextMetadata]_vars

-----------------------------------------------------------------------------
(* process_pdf step by step, with the two external engines it waits for:   *)
(* the OCR engine, called per page by _perform_ocr, and the academic       *)
(* service, called by GrobidClient.  An engine answers (with a value or an *)
(* error) or stays silent.  The requests to the academic service carry a   *)
(* timeout (10 s and 60 s) and raise when it expires;                      *)
(* pytesseract.image_to_string is called without one.  procs holds the     *)
(* position of the run and what it has gathered.                           *)

(* A page with its OCR engine: silent TRUE when the engine never answers   *)
(* for the page.  The engine matters for pages with little native text.    *)
WaitedPageKinds ==
    {p \in [native : NativeLens, ocr : OcrLens, silent : BOOLEAN] :
        /\ ~OcrInvoked(p) => p.ocr = -1 /\ ~p.silent
        /\ p.silent => p.ocr = -1}

WaitedPageSeqs == UNION {[1..k -> WaitedPageKinds] : k \in 1..MaxPages}

GrobidBehaviours == GrobidServiceOutcomes \cup {"silent"}

AcademicXml ==
    [well_formed |-> TRUE, abstract |-> "text", author |-> "surname", titled_refs |-> 0]

StepInputs ==
    {c \in [op : {"process_pdf"}, file_name : {FileName(1)}, valid : BOOLEAN,
            pages : WaitedPageSeqs, pdf_type : {"digital", "scanned"},
            service : GrobidBehaviours, segs : {<<>>, <<TRUE>>}] :
        /\ c.pdf_type = "scanned" => c.service = "down"
        /\ ~c.valid => c.pdf_type = "scanned" /\ c.segs = <<>> /\ Len(c.pages) = 1}

InitSteps ==
    /\ registry = <<>>
    /\ nextId = 1
    /\ index = <<>>
    /\ call \in StepInputs
    /\ result = [op |-> "init"]
    /\ procs = [pc |-> "validate", page |-> 1, nonempty |-> FALSE,
                ocr_pages |-> <<>>, grobid |-> "failed"]

(* The pdf of the run in the terms of ProcessPdfCall.                      *)
SteppedPdf ==
    [file_name |-> call.file_name, content |-> "v1",
     defect |-> IF call.valid THEN "ok" ELSE "unopenable",
     pdf_type |-> call.pdf_type, grobid |-> procs.grobid,
     text |-> [nonempty |-> procs.nonempty], segs |-> call.segs]

(* The return of process_pdf, from the except branch or from step 9.       *)
ReturnFrom(pdf) ==
    LET env == CHOOSE e \in HealthyIngestEnvs : TRUE
        r == ProcessPdfCall(registry, nextId, index, pdf, NoneId, env)
    IN  /\ registry' = r.registry
        /\ nextId' = r.nextId
        /\ index' = r.index
        /\ result' = r.result

(* Steps 1 and 2.                                                          *)
BeginIngest ==
    /\ procs.pc = "validate"
    /\ IF call.valid
       THEN /\ procs' = [procs EXCEPT !.pc = "extract"]
            /\ UNCHANGED <<registry, nextId, index, result>>
       ELSE /\ procs' = [procs EXCEPT !.pc = "returned"]
            /\ ReturnFrom(SteppedPdf)
    /\ UNCHANGED call

(* _extract_text, one page: the native text, or the call of the OCR        *)
(* engine.                                                                 *)
ExtractPageStep ==
    /\ procs.pc = "extract"
    /\ procs.page <= Len(call.pages)
    /\ LET page == call.pages[procs.page] IN
       IF OcrInvoked(page)
       THEN procs' = [procs EXCEPT !.pc = "ocr"]
       ELSE procs' = [procs EXCEPT !.page = @ + 1,
                                   !.nonempty = @ \/ page.native > 0]
    /\ UNCHANGED <<registry, nextId, index, call, result>>

(* image_to_string returns or raises; _perform_ocr gives the text or None. *)
OcrAnswers ==
    /\ procs.pc = "ocr"
    /\ LET page == call.pages[procs.page] IN
       /\ ~page.silent
       /\ procs' = [procs EXCEPT
             !.pc = "extract",
             !.page = @ + 1,
             !.nonempty = @ \/ (IF OcrUsed(page) THEN page.ocr > 0 ELSE page.native > 0),
             !.ocr_pages = IF OcrUsed(page) THEN Append(@, procs.page) ELSE @]
    /\ UNCHANGED <<registry, nextId, index, call, result>>

(* The end of _extract_text and the check of step 3; then step 4.          *)
FinishExtraction ==
    /\ procs.pc = "extract"
    /\ procs.page > Len(call.pages)
    /\ IF NoTextExtracted([nonempty |-> procs.nonempty])
       THEN /\ procs' = [procs EXCEPT !.pc = "returned"]
            /\ ReturnFrom(SteppedPdf)
       ELSE /\ procs' = [procs EXCEPT
                  !.pc = IF call.pdf_type = "digital" THEN "grobid" ELSE "chunk"]
            /\ UNCHANGED <<registry, nextId, index, result>>
    /\ UNCHANGED call

(* The academic service answers within the timeouts.                       *)
GrobidAnswers ==
    /\ procs.pc = "grobid"
    /\ call.service /= "silent"
    /\ procs' = [procs EXCEPT
          !.pc = "chunk",
          !.grobid = GrobidOutcomeOf(ExtractMetadataDict(call.file_name, 1, call.pdf_type,
                                                         call.service, AcademicXml, "ok"))]
    /\ UNCHANGED <<registry, nextId, index, call, result>>

(* The timeout of requests expires: the call raises, extract_metadata      *)
(* returns success False and the basic metadata is used.                   *)
GrobidTimesOut ==
    /\ procs.pc = "grobid"
    /\ call.service = "silent"
    /\ procs' = [procs EXCEPT
          !.pc = "chunk",
          !.grobid = GrobidOutcomeOf(ExtractMetadataDict(call.file_name, 1, call.pdf_type,
                                                         "raises", AcademicXml, "ok"))]
    /\ UNCHANGED <<registry, nextId, index, call, result>>

(* Steps 4.5 to 9.                                                         *)
CompleteIngest ==
    /\ procs.pc = "chunk"
    /\ procs' = [procs EXCEPT !.pc = "returned"]
    /\ ReturnFrom(SteppedPdf)
    /\ UNCHANGED call

NextSteps ==
    \/ BeginIngest
    \/ ExtractPageStep
    \/ OcrAnswers
    \/ FinishExtraction
    \/ GrobidAnswers
    \/ GrobidTimesOut
    \/ CompleteIngest

SpecSteps == InitSteps /\ [][NextSteps]_vars

(* The run goes on while a step is enabled: the interpreter executes the   *)
(* next statement, an engine that answers does so, a timeout expires.      *)
SpecStepsFair == SpecSteps /\ WF_vars(NextSteps)

-----------------------------------------------------------------------------
(* Properties                                                              *)

ScopeEntries(idx, document_id) ==
    {k \in DOMAIN idx :
        document_id = NoneId \/ idx[k].metadata.document_id = Str(document_id)}

(* C1: after reprocess_document(document_id, pdf_path) on a document that  *)
(* has chunks in the index, the index holds exactly the chunk set newly    *)
(* generated for that id: one entry per new chunk index and none left from *)
(* the previous run.                                                       *)
C1_ReprocessLeavesExactlyNewChunks ==
    (call.op = "reprocess_document" /\ call.had_chunks /\ call.new_chunks /= {})
        => EntriesOf(index, call.document_id) = call.new_chunks

(* C2: a reprocessing run after which the index holds no chunk of the      *)
(* document (the re-insert did not happen or failed) leaves the registry   *)
(* record with processing_status 'partial', never 'completed'.             *)
C2_FailedReprocessIsPartial ==
    (call.op = "reprocess_document" /\ EntriesOf(index, call.document_id) = {})
        => registry[call.document_id].processing_status = "partial"

(* C3: when process_pdf extracts and chunks a new document and embedding   *)
(* or storage fails, the registry holds the document with                  *)
(* processing_status 'partial', so that list_all_documents tells it from   *)
(* the completed ones.                                                     *)
C3_PartialIngestIsRegisteredPartial ==
    (/\ call.op = "process_pdf" /\ ~call.known
     /\ result.success /\ result.saved_to_database
     /\ (call.embed = "fails" \/ ~call.index_reachable))
        => /\ result.document_id \in ListAllDocuments(registry, "partial")
           /\ result.document_id \notin ListAllDocuments(registry, "completed")

(* C4: when extraction yields no text, process_pdf returns a failure       *)
(* (success false, processing_status 'failed', step text_extraction), no   *)
(* registry record is created or marked completed by the call and no chunk *)
(* is written to the index.                                                *)
C4_NoTextIsFatalAndUnregistered ==
    [][(call'.op = "process_pdf" /\ call'.valid /\ ~call'.text_nonempty)
          => /\ result'.success = FALSE
             /\ result'.processing_status = "failed"
             /\ result'.step = "text_extraction"
             /\ registry' = registry
             /\ index' = index
             /\ (~call'.known =>
                    \A d \in ListAllDocuments(registry', "completed") :
                        registry'[d].file_name /= call'.file_name)]_vars

C4_Witness ==
    /\ call.op = "process_pdf" /\ call.valid /\ ~call.text_nonempty
    /\ result.step = "text_extraction"

(* C5: whenever the index was asked, _retrieve_context returns no chunk    *)
(* if and only if the index returned no result, whatever the distances.    *)
C5_EmptyContextOnlyWhenNoResults ==
    (call.op = "_retrieve_context" /\ call.queried)
        => (Len(result.chunks) = 0 <=> Len(call.results) = 0)

C5_Witness ==
    /\ call.op = "_retrieve_context" /\ call.queried
    /\ Len(call.results) >= 1
    /\ \A i \in 1..Len(call.results) : call.results[i].distance > 15
    /\ Len(result.chunks) >= 1

SameChunk(c, r) ==
    c.content = r.content /\ c.metadata = r.metadata /\ c.distance = r.distance

(* C6: _retrieve_context returns exactly the index results with distance   *)
(* at most 1.5, in the index's order (distances 0.2, 0.9, 1.6, 2.0 keep    *)
(* the first two); when none is and n >= 1 results came back, exactly the  *)
(* first min(3, n) raw results in order.                                   *)
C6_FilterKeepsWithinThresholdElseTopThree ==
    (call.op = "_retrieve_context" /\ call.queried)
        => LET raw == call.results
               out == result.chunks
               within == {i \in 1..Len(raw) : raw[i].distance <= 15}
               place(i) == Cardinality({h \in within : h <= i})
           IN  /\ within /= {} =>
                     /\ Len(out) = Cardinality(within)
                     /\ \A i \in within : SameChunk(out[place(i)], raw[i])
               /\ (within = {} /\ Len(raw) >= 1) =>
                     /\ Len(out) = Min(3, Len(raw))
                     /\ \A j \in 1..Len(out) : SameChunk(out[j], raw[j])
               /\ [i \in 1..Len(raw) |-> raw[i].distance] = <<2, 9, 16, 20>> =>
                     /\ Len(out) = 2
                     /\ SameChunk(out[1], raw[1]) /\ SameChunk(out[2], raw[2])

C6_Witness ==
    /\ call.op = "_retrieve_context" /\ call.queried
    /\ [i \in 1..Len(call.results) |-> call.results[i].distance] = <<2, 9, 16, 20>>
    /\ Len(result.chunks) = 2

(* C7: query() returns the 'no relevant context' outcome exactly when the  *)
(* index holds no entry for the requested scope; a query that cannot be    *)
(* encoded, or an index that fails or is unreachable, is not reported as   *)
(* 'no relevant context'.                                                  *)
C7_NoRelevantContextOnlyForEmptyScope ==
    (call.op = "query" /\ call.document_id /= 0)
        => (result.reason = "no_relevant_context"
               <=> /\ call.embed = "ok"
                   /\ call.index_reachable
                   /\ ScopeEntries(index, call.document_id) = {})

(* The chunks of a one-segment document, embedded.                         *)
ProbeChunks ==
    LET chunked == ChunkText("v1", <<TRUE>>, default_chunk_size, default_overlap)
    IN  EncodeChunks([i \in 1..Len(chunked) |-> [chunked[i] EXCEPT !.document_id = 1]],
                     "ok").chunks

C9_GenerationFailureFailsQuery ==
    (call.op = "query" /\ call.context /\ call.llm = "fails")
        => (result.success = FALSE /\ result.error /= None)

(* C10: when the answer-generation call fails during                       *)
(* generate_document_summary, the result has success false, summary None   *)
(* and an error; no summary or key points are returned.                    *)
C10_SummaryGenerationFailureIsFatal ==
    (call.op = "generate_document_summary" /\ call.context /\ call.llm = "fails")
        => /\ result.success = FALSE
           /\ result.summary = None
           /\ result.key_points = None
           /\ result.error /= None

C10_Witness ==
    /\ call.op = "generate_document_summary" /\ call.context /\ call.llm = "fails"
    /\ result.success = FALSE

(* C11: when the LLM call fails during generate_question_suggestions for   *)
(* an existing document with retrievable chunks, the result is success     *)
(* true with exactly the four fixed fallback questions; every successful   *)
(* result has at most 4 questions.                                         *)
C11_QuestionsDegradeToFallback ==
    call.op = "generate_question_suggestions" =>
        /\ (call.context /\ call.llm = "fails") =>
              /\ result.success = TRUE
              /\ result.questions =
                    <<"What are the main findings of this document?",
                      "What methodology was used in this research?",
                      "What are the practical applications mentioned?",
                      "What limitations or future work are discussed?">>
        /\ result.success = TRUE => Len(result.questions) <= 4

C11_Witness ==
    /\ call.op = "generate_question_suggestions"
    /\ call.context /\ call.llm = "fails"
    /\ Len(result.questions) = 4

(* C12: generate_document_summary on a registered document with no chunk   *)
(* in the index returns a failure with error 'No content found for         *)
(* summarization' and summary None, and does not call the LLM.             *)
C12_NoChunksNoSummary ==
    (/\ call.op = "generate_document_summary" /\ call.db = "ok"
     /\ call.document_id \in DOMAIN registry
     /\ EntriesOf(index, call.document_id) = {})
        => /\ result.success = FALSE
           /\ result.error = "No content found for summarization"
           /\ result.summary = None
           /\ ~result.llm_called

C12_Witness ==
    /\ call.op = "generate_document_summary" /\ call.db = "ok"
    /\ call.document_id \in DOMAIN registry
    /\ EntriesOf(index, call.document_id) = {}
    /\ call.embed = "ok" /\ call.index_reachable
    /\ result.error = "No content found for summarization"

(* C13: the chunk_index values of the chunks process_pdf produces for a    *)
(* document, with either chunking strategy, are exactly 0..N-1 for the N   *)
(* chunks produced, and the chunks it stores are stored under them; also   *)
(* when the splitter emitted blank segments that were discarded.           *)
C13_ChunkIndexesAreDense ==
    (call.op = "process_pdf" /\ result.success)
        => /\ result.chunk_indexes = 0..(result.chunks - 1)
           /\ result.stored_in_vectordb =>
                 \A i \in 0..(result.chunks - 1) :
                     ChunkId(result.document_id, i) \in DOMAIN index

(* The chunks of a one-segment document under id 1, embedded, with the     *)
(* given content.                                                          *)
EmbeddedChunksOf(content) ==
    LET chunked == ChunkText(content, <<TRUE>>, default_chunk_size, default_overlap)
    IN  EncodeChunks([i \in 1..Len(chunked) |-> [chunked[i] EXCEPT !.document_id = 1]],
                     "ok").chunks

(* C14: store_chunks is an idempotent overwrite keyed by                   *)
(* '{document_id}_{chunk_index}': storing a chunk whose id exists succeeds *)
(* and replaces the entry, and storing the same chunk set twice leaves the *)
(* index as storing it once, one entry per id; stated for at least one of  *)
(* the ways the backing add can treat an id that exists.                   *)
C14_StoreIsIdempotentOverwrite ==
    \E dupPolicy \in {"skip", "raise"} : \A content \in Contents :
        LET chunks == EmbeddedChunksOf(content)
            once == StoreChunks(index, "connected", chunks, "ok", dupPolicy)
            twice == StoreChunks(once.index, "connected", chunks, "ok", dupPolicy)
        IN  /\ once.ok /\ twice.ok
            /\ twice.index = once.index
            /\ \A i \in 1..Len(chunks) :
                  LET k == ChunkId(chunks[i].document_id, chunks[i].chunk_index)
                  IN  k \in DOMAIN once.index
                      /\ once.index[k].document = chunks[i].content

(* The index ids a worker writes.                                          *)
WrittenIds(p) ==
    {ChunkId(procs[p].chunks[i].document_id, procs[p].chunks[i].chunk_index) :
        i \in 1..Len(procs[p].chunks)}

(* C15: when two different documents are processed concurrently, the sets  *)
(* of index ids they write are disjoint, and neither run overwrites, drops *)
(* or blocks the other's chunks: a run that has stored finds each of its   *)
(* chunks in the index, in every interleaving, also when an insert fails   *)
(* and the temporary id is used.                                           *)
C15_ConcurrentRunsDoNotConflict ==
    \A p \in DOMAIN procs :
        /\ \A q \in DOMAIN procs \ {p} : WrittenIds(p) \cap WrittenIds(q) = {}
        /\ procs[p].pc \in {"update", "done"} =>
              /\ procs[p].storage_success
              /\ \A i \in 1..Len(procs[p].chunks) :
                    LET c == procs[p].chunks[i]
                        k == ChunkId(c.document_id, c.chunk_index)
                    IN  k \in DOMAIN index /\ index[k].document = c.content

(* C16: on a read error detect_pdf_type returns 'unknown' with confidence  *)
(* 0 and does not raise, and process_pdf then still extracts, takes the    *)
(* basic metadata, chunks, embeds and stores: it fails only when the text  *)
(* gives no chunk, never because of the classification.                    *)
C16_UnknownTypeStillProcessed ==
    /\ \A d \in ClassifiedDocs :
          ~d.readable =>
              LET a == DetectPdfType(d)
              IN  ~a.raised /\ a.pdf_type = "unknown" /\ a.confidence100 = 0
    /\ (call.op = "process_pdf" /\ call.read_error) =>
          LET withContent == {i \in 1..Len(call.segments) : call.segments[i]} IN
          /\ result.success <=> withContent /= {}
          /\ ~result.success => result.step = "chunking"
          /\ result.success =>
                /\ result.pdf_type = "unknown"
                /\ result.metadata_source = "basic"
                /\ result.chunks = Cardinality(withContent)
                /\ (call.embed = "ok" /\ call.index_reachable)
                      => (result.has_embeddings /\ result.stored_in_vectordb)

C16_Witness ==
    /\ call.op = "process_pdf" /\ call.read_error
    /\ result.success /\ result.pdf_type = "unknown"
    /\ result.stored_in_vectordb

(* C17: detect_pdf_type returns 'digital' exactly when the characters of   *)
(* the sampled pages with more than 50 characters, divided by the pages    *)
(* sampled, exceed the density threshold and more than 0.6 of the sampled  *)
(* pages have text; otherwise 'scanned', in particular when more than 0.8  *)
(* of the sampled pages have images and none has text.                     *)
C17_DigitalIffDenseAndMostlyText ==
    (call.op = "detect_pdf_type" /\ call.doc.readable) =>
        LET S == result.sample_indices
            textPages == {i \in S : call.doc.pages[i].chars > 50}
            imagePages == {i \in S : call.doc.pages[i].images}
            n == Cardinality(S)
            dense == SumChars(call.doc.pages, textPages) > text_density_threshold_chars * n
            mostlyText == 10 * Cardinality(textPages) > 6 * n
        IN  /\ result.pdf_type \in {"digital", "scanned"}
            /\ result.pdf_type = "digital" <=> (n > 0 /\ dense /\ mostlyText)
            /\ (n > 0 /\ 10 * Cardinality(imagePages) > 8 * n /\ textPages = {})
                  => result.pdf_type = "scanned"

C17_Witness ==
    /\ call.op = "detect_pdf_type" /\ call.doc.readable
    /\ result.pdf_type = "digital"
    /\ result.pages_with_text < result.pages_sampled

(* C18: detect_pdf_type samples at most 5 pages, all within the document;  *)
(* a 20-page document is classified from 5 sampled pages, so that 4        *)
(* sampled pages of dense text and no images give 'digital' with           *)
(* text_page_ratio 0.8.                                                    *)
C18_AtMostFivePagesSampled ==
    (call.op = "detect_pdf_type" /\ call.doc.readable) =>
        /\ result.pages_sampled <= 5
        /\ result.sample_indices \subseteq 0..(call.doc.total_pages - 1)
        /\ (/\ call.doc.total_pages = 20
            /\ result.pages_with_text = 4 /\ result.pages_with_images = 0
            /\ \A i \in result.sample_indices :
                  call.doc.pages[i].chars > 50 =>
                      call.doc.pages[i].chars >= 2 * text_density_threshold_chars)
              => (result.pdf_type = "digital" /\ result.text_page_ratio100 = 80)

(* C19: the confidence detect_pdf_type returns lies in [0, 95], for every  *)
(* combination of pages with text and pages with images.                   *)
C19_ConfidenceWithinBounds ==
    call.op = "detect_pdf_type" =>
        (result.confidence100 >= 0 /\ result.confidence100 <= 9500)

(* C20: in _extract_text OCR is invoked exactly for the pages whose        *)
(* trimmed native text is shorter than 50 characters; a page contributes   *)
(* its OCR text and is listed in ocr_pages exactly when OCR was invoked    *)
(* and gave at least 10 characters after trimming, else it contributes its *)
(* native text and is not listed; the pages are taken in order and         *)
(* pages_processed is the page count.  Hence the text is not empty when    *)
(* OCR reaches 10 characters on some page.                                 *)
C20_OcrFallbackPerPage ==
    (call.op = "_extract_text" /\ call.opens) =>
        /\ result.pages_processed = Len(call.pages)
        /\ Len(result.parts) = Len(call.pages)
        /\ \A i \in 1..Len(call.pages) :
              LET invoked == call.pages[i].native < 50
                  usesOcr == invoked /\ call.pages[i].ocr >= 10
              IN  /\ result.parts[i].method = "text" <=> ~invoked
                  /\ result.parts[i].method = "ocr" <=> usesOcr
                  /\ (\E j \in 1..Len(result.ocr_pages) : result.ocr_pages[j] = i) <=> usesOcr
                  /\ result.parts[i].len =
                        IF usesOcr THEN call.pages[i].ocr ELSE call.pages[i].native
        /\ (\E i \in 1..Len(call.pages) :
                call.pages[i].native < 50 /\ call.pages[i].ocr >= 10)
              => result.nonempty

(* C21: _extract_metadata returns the academic service's metadata only     *)
(* when the type is 'digital', the service call succeeds and its response  *)
(* parses; for 'scanned' and 'unknown', when the service is down, answers  *)
(* with another status or raises, and when the response does not parse,    *)
(* the result is the basic metadata with appears_academic false.           *)
C21_AcademicMetadataOnlyWhenParsed ==
    call.op = "_extract_metadata" =>
        LET academic == /\ call.pdf_type = "digital"
                        /\ call.service = "ok"
                        /\ call.xml.well_formed
        IN  /\ result.source = "grobid" => academic
            /\ ~academic => /\ result.source = "basic"
                            /\ "appears_academic" \in result.keys
                            /\ ~result.appears_academic

(* C22: whatever the metadata extraction gives, process_pdf goes on to     *)
(* chunking and embedding, and the metadata it registers and returns has   *)
(* the file's name, not empty, and the file's size.                        *)
C22_MetadataNeverBlocksAndNamesFile ==
    call.op = "process_pdf" /\ "service" \in DOMAIN call =>
        /\ result.step \in {"done", "chunking"}
        /\ result.registered = [file_name |-> call.file_name, file_size |-> call.file_size]
        /\ call.file_name /= ""
        /\ \E d \in DOMAIN registry : registry[d].file_name = call.file_name
        /\ Len(call.segs) > 0 =>
              /\ result.success
              /\ result.has_embeddings
              /\ {"file_name", "file_size"} \subseteq result.metadata.keys
              /\ result.metadata.file_name = call.file_name
              /\ result.metadata.file_size = call.file_size

C22_Witness ==
    /\ call.op = "process_pdf" /\ "service" \in DOMAIN call
    /\ call.pdf_type = "scanned" /\ call.basic = "fails" /\ call.file_size = 2048
    /\ result.success /\ result.has_embeddings
    /\ result.metadata.source = "basic" /\ "error" \in result.metadata.keys
    /\ result.metadata.file_size = 2048

(* C23: for every response that parses, appears_academic is true exactly   *)
(* when at least 2 of the 4 signals hold: abstract present, author         *)
(* present, reference list not empty, more than 3 references.              *)
C23_AcademicIffTwoOfFourSignals ==
    call.op = "_parse_xml" /\ call.xml.well_formed =>
        LET signals == (IF call.xml.abstract = "text" THEN {"abstract"} ELSE {})
                       \cup (IF call.xml.author = "surname" THEN {"author"} ELSE {})
                       \cup (IF call.xml.titled_refs >= 1 THEN {"references"} ELSE {})
                       \cup (IF call.xml.titled_refs >= 4 THEN {"reference_count"} ELSE {})
        IN  /\ "appears_academic" \in result.keys
            /\ result.appears_academic <=> Cardinality(signals) >= 2

C23_Witness ==
    /\ call.op = "_parse_xml" /\ call.xml.well_formed
    /\ call.xml.abstract = "text" /\ call.xml.author = "no_surname"
    /\ call.xml.titled_refs = 1
    /\ result.appears_academic

(* C24: process_pdf chunks with the research preset (1500, 150) exactly    *)
(* when the metadata's appears_academic is true and with the standard      *)
(* preset (1000, 100) otherwise, and every chunk carries the strategy tag  *)
(* of the preset used: 'research' or 'standard'.                           *)
C24_ChunksTaggedWithPresetUsed ==
    (call.op = "process_pdf" /\ "service" \in DOMAIN call /\ result.success) =>
        LET academic == /\ "appears_academic" \in result.metadata.keys
                        /\ result.metadata.appears_academic
        IN  /\ result.chunk_presets = {IF academic THEN <<1500, 150>> ELSE <<1000, 100>>}
            /\ result.chunk_types = {IF academic THEN "research" ELSE "standard"}

(* C25: encode_chunks is all-or-nothing: when the embedding call fails the *)
(* failure reaches process_pdf, which reports has_embeddings false and     *)
(* stores nothing in the index; when it succeeds the chunks are embedded   *)
(* and has_embeddings is true.                                             *)
C25_EmbeddingFailureIsReported ==
    (call.op = "process_pdf" /\ result.success) =>
        /\ call.embed = "fails" => /\ ~result.has_embeddings
                                   /\ ~result.stored_in_vectordb
                                   /\ EntriesOf(index, result.document_id) = {}
        /\ call.embed = "ok" => result.has_embeddings

(* C26: when validation fails, process_pdf returns a failure with step     *)
(* 'validation' before any pipeline work: nothing is classified, extracted *)
(* or embedded, no registry record is inserted or updated and the index    *)
(* is unchanged.                                                           *)
C26_InvalidPdfRejectedBeforeAnyWork ==
    [][(call'.op = "process_pdf" /\ ~call'.valid)
          => /\ result' = FailedResult("validation")
             /\ result'.pdf_type = "unknown"
             /\ result'.chunks = 0
             /\ ~result'.has_embeddings
             /\ registry' = registry
             /\ nextId' = nextId
             /\ index' = index]_vars

C26_Witness ==
    /\ call.op = "process_pdf" /\ ~call.valid
    /\ result.step = "validation" /\ ~result.success
    /\ DOMAIN registry /= {}
    /\ DOMAIN index /= {}

(* C27: delete_document on a registered document with stored chunks        *)
(* removes every index entry of the document and then the registry record  *)
(* and returns true; after a true result neither the index nor the         *)
(* registry holds anything for the id.                                     *)
C27_DeleteRemovesChunksThenRecord ==
    (call.op = "delete_document" /\ call.had_chunks) =>
        /\ result.success
        /\ EntriesOf(index, call.document_id) = {}
        /\ call.document_id \notin DOMAIN registry

(* C28: for a query issued with the id of a processed document, temporary  *)
(* ids included, every chunk _retrieve_context returns has that id as its  *)
(* metadata document_id, and at most max_chunks chunks are returned.       *)
C28_ScopedQueryStaysInDocument ==
    (/\ call.op = "query" /\ call.document_id /= NoneId
     /\ EntriesOf(index, call.document_id) /= {}
     /\ result.success /\ result.reason = None)
        => /\ Len(result.sources) <= max_chunks
           /\ \A i \in 1..Len(result.sources) :
                 result.sources[i] = Str(call.document_id)

(* C29: ingestion terminates: process_pdf eventually returns a result for  *)
(* every behaviour of the OCR engine and of the academic service, also     *)
(* when one of them never answers.                                         *)
C29_IngestionTerminates == <>(procs.pc = "returned")

(* C30: whenever process_pdf returns success false for a new document, the *)
(* registry holds no record of that document with processing_status        *)
(* 'completed'; a failure after the insert leaves no record with the       *)
(* schema's default status behind.                                         *)
C30_FailedIngestLeavesNoCompletedRecord ==
    (call.op = "process_pdf" /\ ~call.known /\ ~result.success) =>
        \A d \in ListAllDocuments(registry, "completed") :
            registry[d].file_name /= call.file_name

====
